---- MODULE Spec2Model ----
(***************************************************************************)
(* The flow-calibration request of the laboratory assistant: the route     *)
(* fluid_calculate (src/routes.py) and the data-reduction pipeline it      *)
(* calls, process_experiment_data.  The route is translated from           *)
(* src/routes.py.  The module fluid_mechanics that defines                 *)
(* process_experiment_data is not among the source files; its stages 2..7  *)
(* are written from sections 4.2-4.7 of the specification.                 *)
(*                                                                         *)
(* Numbers.  A Python float is an integer here: a raw reading is its own   *)
(* value, a velocity is held in units of 1/SCALE, a ratio (cv, slope,      *)
(* r_squared) in units of 1/SCALE, and the one non-finite float, nan, is   *)
(* the value NaN, which every arithmetic operation propagates.             *)
(***************************************************************************)
EXTENDS Integers, Sequences, FiniteSets, TLC

\* Longest reading sequence a request carries.
MaxLen == 3

\* Resolution of the fixed-point velocities and ratios: 1/SCALE.
SCALE == 100

(***************************************************************************)
(* JSON values of a request body and Python's float() on them.             *)
(***************************************************************************)
\* The JSON number n.
Num(n) == [k |-> "num", v |-> n]
\* A JSON string that spells the number n, such as "4".
Str(n) == [k |-> "str", v |-> n]
\* A JSON string that spells no number, such as "abc".
Word == [k |-> "word", v |-> 0]
\* JSON null.
Null == [k |-> "null", v |-> 0]
\* The literal NaN, which json.loads accepts, or the string "nan".
NaNLit == [k |-> "nan", v |-> 0]

\* The float nan.
NaN == -999999

IsNaN(x) == x = NaN

\* float(j) raises ValueError (a word) or TypeError (None).
float_raises(j) == j.k \in {"word", "null"}

\* float(j) when it does not raise: nan is a float like any other.
float_of(j) == IF j.k = "nan" THEN NaN ELSE j.v

\* (float(r[0]), float(r[1])) raises: IndexError when r has fewer than two
\* components, else what float raises.
pair_raises(r) == Len(r) < 2 \/ float_raises(r[1]) \/ float_raises(r[2])

\* (float(r[0]), float(r[1])): components beyond the second are not read.
pair_of(r) == <<float_of(r[1]), float_of(r[2])>>

\* The list comprehension raises as soon as one element does.
convert_raises(readings) == \E i \in 1..Len(readings) : pair_raises(readings[i])

\* The conversion that walks the readings from the last to the first.
convert_readings_reversed(readings) ==
    [i \in 1..Len(readings) |-> pair_of(readings[Len(readings) + 1 - i])]

\* [(float(r[0]), float(r[1])) for r in readings]
convert_readings(readings) == [i \in 1..Len(readings) |-> pair_of(readings[i])]

\* if not orifice_readings or not pitot_readings
no_readings(orifice, pitot) == orifice = <<>> \/ pitot = <<>>

\* The length check written with > where the code has !=.
mismatched_only_longer(orifice, pitot) == Len(orifice) > Len(pitot)

\* if len(orifice_readings) != len(pitot_readings)
mismatched(orifice, pitot) == Len(orifice) # Len(pitot)

\* if 'user_id' not in session
logged_in(s) == "user_id" \in DOMAIN s

(***************************************************************************)
(* The pipeline, stages 2..4: pure functions of the validated readings     *)
(* and the constants (specification, sections 3 and 4.2-4.4).              *)
(***************************************************************************)
\* The default PhysicalConstants, each in hundredths: g 9.81, rho 1000.0,
\* Cd_orifice 0.61, and an orifice/pipe area ratio of 0.50.
DEFAULT_CONSTANTS == [g |-> 981, rho |-> 100000, Cd_orifice |-> 61, A_ratio |-> 50]

\* The raw signal of a validated reading pair (x, y): its first component.
raw_of(pair) == pair[1]

RECURSIVE sqrt_search(_, _, _)
sqrt_search(x, lo, hi) ==
    IF lo >= hi THEN lo
    ELSE LET mid == (lo + hi + 1) \div 2
         IN  IF mid * mid <= x THEN sqrt_search(x, mid, hi)
             ELSE sqrt_search(x, lo, mid - 1)

\* The square root of a non-negative number, rounded down.
sqrt(x) == sqrt_search(x, 0, IF x < 46340 THEN x ELSE 46340)

\* The radicand made non-negative by dropping its sign.
clamp_abs(radicand) == IF radicand < 0 THEN 0 - radicand ELSE radicand

\* The radicand of a velocity formula, clamped at 0.
clamp(radicand) == IF radicand < 0 THEN 0 ELSE radicand

\* 2 * g * orifice_raw / (1 - A_ratio^2), in units of 1/SCALE^2.
orifice_radicand(raw, c) ==
    ((2 * c.g * raw * 100 * SCALE) \div (10000 - c.A_ratio * c.A_ratio)) * SCALE

\* 2 * pitot_raw / rho, in units of 1/SCALE^2.
pitot_radicand(raw, c) == (2 * raw * 100 * SCALE * SCALE) \div c.rho

\* V0 = Cd_orifice * sqrt(2 * g * orifice_raw / (1 - A_ratio^2))
orifice_velocity(raw, c) ==
    IF IsNaN(raw) THEN NaN
    ELSE (c.Cd_orifice * sqrt(clamp(orifice_radicand(raw, c)))) \div 100

\* Vp = sqrt(2 * pitot_raw / rho)
pitot_velocity(raw, c) ==
    IF IsNaN(raw) THEN NaN
    ELSE sqrt(clamp(pitot_radicand(raw, c)))

\* Stage 2: the velocities of every reading, in input order.
physical_model(orifice, pitot, c) ==
    [i \in 1..Len(orifice) |->
        [v0 |-> orifice_velocity(raw_of(orifice[i]), c),
         vp |-> pitot_velocity(raw_of(pitot[i]), c)]]

\* The number of radicands stage 2 clamped (the diagnostic of section 4.2).
clamped_count(orifice, pitot, c) ==
    Cardinality({i \in 1..Len(orifice) :
        /\ ~IsNaN(raw_of(orifice[i]))
        /\ orifice_radicand(raw_of(orifice[i]), c) < 0})
    + Cardinality({i \in 1..Len(pitot) :
        /\ ~IsNaN(raw_of(pitot[i]))
        /\ pitot_radicand(raw_of(pitot[i]), c) < 0})

\* cv = V0 / Vp, for Vp # 0.
cv_of(v0, vp) == IF IsNaN(v0) \/ IsNaN(vp) THEN NaN ELSE (v0 * SCALE) \div vp

\* A point is excluded when its Pitot velocity is 0.
is_excluded(pt) == pt.vp = 0

\* Every point kept as a row, an excluded one with cv 0.
calibration_points_keep_all(points) ==
    [i \in 1..Len(points) |->
        [index |-> i, v0 |-> points[i].v0, vp |-> points[i].vp,
         cv |-> IF is_excluded(points[i]) THEN 0
                ELSE cv_of(points[i].v0, points[i].vp)]]

\* Stage 3: the CalibrationPoints of the points that are not excluded.
calibration_points(points) ==
    LET row(i) == [index |-> i, v0 |-> points[i].v0, vp |-> points[i].vp,
                   cv |-> IF is_excluded(points[i]) THEN 0
                          ELSE cv_of(points[i].v0, points[i].vp)]
    IN  SelectSeq([i \in 1..Len(points) |-> row(i)], LAMBDA r : ~is_excluded(r))

\* The exclusions left uncounted.
excluded_points_uncounted(points) == 0

\* Stage 3: how many points were excluded.
excluded_points(points) == Cardinality({i \in 1..Len(points) : is_excluded(points[i])})

RECURSIVE fsum(_)
\* The float sum of a sequence: nan as soon as one term is.
fsum(xs) ==
    IF xs = <<>> THEN 0
    ELSE LET rest == fsum(Tail(xs))
         IN  IF IsNaN(Head(xs)) \/ IsNaN(rest) THEN NaN ELSE Head(xs) + rest

\* One column of a table of rows.
column_cv(rows) == [i \in 1..Len(rows) |-> rows[i].cv]

column_vp(rows) == [i \in 1..Len(rows) |-> rows[i].vp]

column_v0(rows) == [i \in 1..Len(rows) |-> rows[i].v0]

\* The float product: nan as soon as one factor is.
fmul(a, b) == IF IsNaN(a) \/ IsNaN(b) THEN NaN ELSE a * b

\* Stage 3: the arithmetic mean of cv over the rows (there is at least one).
mean_of_cv(rows) ==
    LET total == fsum(column_cv(rows))
    IN  IF IsNaN(total) THEN NaN ELSE total \div Len(rows)

\* n * SUM (x - mean(x))^2 over the rows, x = Vp: n * SUM x^2 - (SUM x)^2.
vp_variance(rows) ==
    LET sx  == fsum(column_vp(rows))
        sxx == fsum([i \in 1..Len(rows) |-> fmul(rows[i].vp, rows[i].vp)])
    IN  IF IsNaN(sx) THEN NaN ELSE Len(rows) * sxx - sx * sx

\* Stage 4 fails with DegenerateFitError: all Vp identical.
is_degenerate(rows) == vp_variance(rows) = 0

\* Stage 4: the least-squares line V0 = slope * Vp + intercept and r_squared.
regression(rows) ==
    LET n   == Len(rows)
        sx  == fsum(column_vp(rows))
        sy  == fsum(column_v0(rows))
        sxy == fsum([i \in 1..Len(rows) |-> fmul(rows[i].vp, rows[i].v0)])
        den == vp_variance(rows)
    IN  IF IsNaN(sx) \/ IsNaN(sy)
        THEN [slope |-> NaN, intercept |-> NaN, r_squared |-> NaN]
        ELSE LET slope     == ((n * sxy - sx * sy) * SCALE) \div den
                 intercept == (sy - (slope * sx) \div SCALE) \div n
                 ybar      == sy \div n
                 fitted(r) == (slope * r.vp) \div SCALE + intercept
                 ss_res    == fsum([i \in 1..n |->
                                  (rows[i].v0 - fitted(rows[i]))
                                  * (rows[i].v0 - fitted(rows[i]))])
                 ss_tot    == fsum([i \in 1..n |->
                                  (rows[i].v0 - ybar) * (rows[i].v0 - ybar)])
             IN  [slope |-> slope, intercept |-> intercept,
                  r_squared |-> IF ss_tot = 0 THEN NaN
                                ELSE SCALE - (ss_res * SCALE) \div ss_tot]

\* "V0 = {slope:.4f}.Vp + {intercept:.4f}": the text is fixed by the two floats.
equation_text(fit) == [text |-> "V0 = %.4f*Vp + %.4f", slope |-> fit.slope,
                       intercept |-> fit.intercept]

(***************************************************************************)
(* The pipeline, stages 5..7, and the route's use of its result.           *)
(***************************************************************************)
\* An optional value: None is <<>>, a value x that is set is <<x>>.
None == <<>>

Some(x) == <<x>>

\* Stage 5: the chart is a function of the points, the fit and the labels.
render_chart(points, fit, labels) ==
    [format |-> "png", labels |-> labels, points |-> points, fit |-> fit]

\* Stage 6: the document holds the table, mean_cv, the equation and the chart.
build_report(rows, mean, text, chart) ==
    [format |-> "pdf", rows |-> rows, mean_cv |-> mean, equation |-> text,
     chart |-> chart]

\* Stage 7: the dictionary process_experiment_data returns.
aggregate(rows, mean, text, chart, report) ==
    [results |-> rows, mean_cv |-> mean, model_calculation |-> text,
     graph_base64 |-> chart, pdf_base64 |-> report]

\* The default of data.get('graph_params', ['V0', 'Vp']).
DEFAULT_GRAPH_PARAMS == <<"V0", "Vp">>

\* graph_params = data.get('graph_params', ['V0', 'Vp']): None is a body
\* without the key.
graph_params(data) ==
    IF data.graph_params = None THEN DEFAULT_GRAPH_PARAMS ELSE data.graph_params[1]

\* The call that passes no constants on.
custom_constants_dropped(data) == None

\* custom_constants = data.get('constants', None)
custom_constants(data) == data.constants

\* The keys of PhysicalConstants.
ConstantKeys == {"g", "rho", "Cd_orifice", "A_ratio"}

\* The constants of a run: the defaults, overridden key by key.
merge_constants(d, override) ==
    IF override = None THEN d
    ELSE [k \in ConstantKeys |->
             IF k \in DOMAIN override[1] THEN override[1][k] ELSE d[k]]

\* return redirect(url_for('login'))
redirect_login == [status |-> 302, body |-> [location |-> "login"]]

\* return jsonify({'success': False, 'error': ...}), 400
error_response(message) ==
    [status |-> 400, body |-> [success |-> FALSE, error |-> message]]

\* return jsonify({'success': True, 'results': result['results'], ...})
success_response(result) ==
    [status |-> 200,
     body |-> [success |-> TRUE,
               results |-> result.results,
               mean_cv |-> result.mean_cv,
               model_calculation |-> result.model_calculation,
               graph_base64 |-> result.graph_base64,
               pdf_base64 |-> result.pdf_base64]]

\* No response has been returned yet.
no_response == [status |-> 0, body |-> [pending |-> TRUE]]

\* ActivityLog(user_id, action_type, description)
activity(user_id, action_type, n) ==
    [user_id |-> user_id, action_type |-> action_type, readings |-> n]

\* A Calculation whose mass_needed is left at 0.
calculation_record_without_mean(user_id, mean) ==
    [user_id |-> user_id, reagent |-> "Pitot Tube Experiment",
     formula |-> "Cv = V0/Vp", molarity |-> 0, volume |-> 0, mass_needed |-> 0]

\* Calculation(user_id, reagent='Pitot Tube Experiment', ..., mass_needed=mean_cv)
calculation_record(user_id, mean) ==
    [user_id |-> user_id, reagent |-> "Pitot Tube Experiment",
     formula |-> "Cv = V0/Vp", molarity |-> 0, volume |-> 0, mass_needed |-> mean]

(***************************************************************************)
(* The requests the model draws.                                           *)
(***************************************************************************)
\* Elements of orifice_readings: a negative signal, a positive signal with a
\* component sent as a string, a one-component element, nan.
OrificeElems ==
    { <<Num(-1), Num(1)>>, <<Num(4), Str(1)>>, <<Num(1)>>, <<NaNLit, Num(1)>> }

\* Elements of pitot_readings: a negative and a zero signal, two positive
\* signals (one with a third component), a word next to a null.
PitotElems ==
    { <<Num(-1), Num(1)>>, <<Num(0), Num(1)>>, <<Num(1), Num(1)>>,
      <<Num(4), Num(1), Num(9)>>, <<Word, Null>> }

SeqsUpTo(S, n) == UNION {[1..k -> S] : k \in 0..n}

\* The Flask session of the request: empty, or that of user 1.
Sessions == { [x \in {} |-> 0], [user_id |-> 1] }

VARIABLES
    session,            \* the Flask session
    req,                \* the JSON body: orifice_readings, pitot_readings
    pc,                 \* where fluid_calculate stands
    orifice_readings,   \* the route's local after conversion
    pitot_readings,     \* the route's local after conversion
    stages,             \* the pipeline stages run so far, in order
    points,             \* stage 2: the velocities of each reading
    clamped,            \* stage 2: how many radicands were clamped
    results,            \* stage 3: the CalibrationPoints
    excluded_count,     \* stage 3: how many points were excluded
    mean_cv,            \* stage 3: None or the mean
    fit,                \* stage 4: None or the ModelFit
    graph_base64,       \* stage 5: None or the chart
    pdf_base64,         \* stage 6: None or the document
    result,             \* stage 7: None or the returned dictionary
    raised,             \* the exception that ended the try block, or ""
    activity_log,       \* the committed ActivityLog rows
    calculations,       \* the committed Calculation rows
    response,           \* the response returned, or no_response
    constants,          \* stage 2: None or the constants of the run
    faults,             \* whether the renderer and the report builder fail
                        \* on the input of the run, once that is known
    defaults,           \* the process-wide default PhysicalConstants
    run,                \* the number of the request being served
    first,              \* None, or the first request and its outcome
    users,              \* the User table, in order of creation
    sessions,           \* the Flask session of each client
    handlers,           \* the request each client has in flight
    last,               \* the request answered last
    logged_out,         \* per client: a logout came after its last login
    experiments,        \* the committed Experiment table
    deletion,           \* the delete_experiment request being served
    message,            \* the message process_message is given
    intent,             \* the intent _classify_intent returned, or None
    reply,              \* what process_message returns, or None
    chat_pc,            \* where process_message stands
    chat_messages,      \* the committed ChatMessage table, in order of id
    sending,            \* the send_chat_message request being served
    torch,              \* what the import of torch and transformers gave
    chemllm,            \* the global ChemLLMIntegration instance
    construction,       \* where the construction of chemllm stands
    answers             \* what the calls made of chemllm returned, in order

fluid == <<session, req, pc, orifice_readings, pitot_readings, stages, points,
           clamped, results, excluded_count, mean_cv, fit, graph_base64,
           pdf_base64, result, raised, activity_log, calculations, response,
           constants, faults, defaults, run, first>>

\* The state of the login, logout and page handlers.
app == <<users, sessions, handlers, last, logged_out>>

\* The state of delete_experiment.
deleting == <<experiments, deletion>>

\* The state of LabMateChatbot.process_message.
chatting == <<message, intent, reply, chat_pc>>

\* The state of send_chat_message.
posting == <<chat_messages, sending>>

\* The state of the module chemllm_integration.
assistant == <<torch, chemllm, construction, answers>>

\* The handlers modelled apart from fluid_calculate and the application.
elsewhere == <<deleting, chatting, posting, assistant>>

\* What fluid_calculate leaves alone while it serves one request.
beyond == <<defaults, run, first, app, elsewhere>>

vars == <<fluid, app, elsewhere>>

\* The browsers that send requests.
Clients == {1, 2}

\* A session without any key.
no_session == [k \in {} |-> 0]

\* No request of the client is being handled.
idle == [pc |-> "idle", name |-> "", role |-> "", user |-> None, created |-> FALSE]

\* No request has been answered yet.
no_request ==
    [route |-> "", guard |-> "", had_user |-> FALSE,
     after_logout |-> FALSE,
     answer |-> "", wrote |-> FALSE, computed |-> FALSE, session |-> no_session]

\* No delete_experiment request is there.
no_deletion ==
    [pc |-> "idle", experiment_id |-> 0, experiment |-> None, pending |-> "none",
     status |-> 0, before |-> {}, log_before |-> 0]

\* No experiment exists and none is being deleted.
nothing_to_delete ==
    /\ experiments = {}
    /\ deletion = no_deletion

\* No send_chat_message request is there.
no_sending ==
    [pc |-> "idle", data |-> None, user_message |-> <<>>, bot_response |-> <<>>,
     status |-> 0, calls |-> <<>>, before |-> <<>>, log_before |-> 0]

\* No chat message is stored and none is being sent.
nothing_posted ==
    /\ chat_messages = <<>>
    /\ sending = no_sending

\* The object before __init__ has assigned any attribute.
no_chemllm ==
    [model |-> None, tokenizer |-> None, device |-> "", is_loaded |-> FALSE,
     enabled |-> FALSE]

\* The module chemllm_integration has not been imported.
not_imported ==
    /\ torch = [available |-> FALSE, cuda |-> FALSE]
    /\ chemllm = no_chemllm
    /\ construction = [pc |-> "idle", raised |-> ""]
    /\ answers = <<>>

\* The chatbot has been given no message.
no_chat ==
    /\ message = <<>>
    /\ intent = None
    /\ reply = None
    /\ chat_pc = "idle"

\* No user exists, nobody is logged in, nothing is in flight.
app_started ==
    /\ users = <<>>
    /\ sessions = [c \in Clients |-> no_session]
    /\ handlers = [c \in Clients |-> idle]
    /\ last = no_request
    /\ logged_out = [c \in Clients |-> FALSE]

locals == <<orifice_readings, pitot_readings>>

pipeline == <<points, clamped, results, excluded_count, mean_cv, fit,
              graph_base64, pdf_base64, result, constants>>

database == <<activity_log, calculations>>

\* Neither stage 5 nor stage 6 has met the input yet.
no_faults_known == [render |-> "unknown", report |-> "unknown"]

\* The state in which a request is received.
request_received ==
    /\ pc = "request"
    /\ orifice_readings = <<>>
    /\ pitot_readings = <<>>
    /\ stages = <<>>
    /\ points = <<>>
    /\ clamped = 0
    /\ results = <<>>
    /\ excluded_count = 0
    /\ mean_cv = None
    /\ fit = None
    /\ graph_base64 = None
    /\ pdf_base64 = None
    /\ result = None
    /\ raised = ""
    /\ response = no_response
    /\ constants = None

\* The process after start-up, with an empty database.
process_started ==
    /\ activity_log = <<>>
    /\ calculations = <<>>
    /\ defaults = DEFAULT_CONSTANTS
    /\ faults = no_faults_known
    /\ run = 1
    /\ first = None

InitFluid ==
    /\ session \in Sessions
    /\ req \in [orifice_readings : SeqsUpTo(OrificeElems, MaxLen),
                pitot_readings : SeqsUpTo(PitotElems, MaxLen),
                graph_params : {None},
                constants : {None}]
    /\ request_received
    /\ process_started
    /\ app_started
    /\ nothing_to_delete
    /\ no_chat
    /\ nothing_posted
    /\ not_imported

Init == InitFluid

\* An exception handler that also sends back what the run had computed.
except_handler_partial(e) ==
    /\ raised' = e
    /\ response' = [status |-> 400,
                    body |-> [success |-> FALSE, error |-> e, results |-> results]]
    /\ pc' = "done"

\* except Exception as e: return jsonify({'success': False, 'error': str(e)}), 400
except_handler(e) ==
    /\ raised' = e
    /\ response' = error_response(e)
    /\ pc' = "done"

\* if 'user_id' not in session: return redirect(url_for('login'))
login_required ==
    /\ pc = "request"
    /\ IF logged_in(session)
       THEN /\ pc' = "validate"
            /\ UNCHANGED response
       ELSE /\ pc' = "done"
            /\ response' = redirect_login
    /\ UNCHANGED <<beyond, faults>>
    /\ UNCHANGED <<session, req, locals, stages, pipeline, raised, database>>

\* The validator whose first check builds its error response and does not return.
validate_falls_through ==
    /\ pc = "validate"
    /\ stages' = Append(stages, 1)
    /\ IF no_readings(req.orifice_readings, req.pitot_readings)
       THEN /\ response' = error_response("No readings provided")
            /\ pc' = "stage2"
            /\ UNCHANGED locals
       ELSE IF mismatched(req.orifice_readings, req.pitot_readings)
       THEN /\ response' =
                error_response("Mismatched number of orifice and pitot readings")
            /\ pc' = "done"
            /\ UNCHANGED locals
       ELSE IF \/ convert_raises(req.orifice_readings)
               \/ convert_raises(req.pitot_readings)
       THEN /\ response' =
                error_response("Invalid reading format. All values must be numbers.")
            /\ pc' = "done"
            /\ UNCHANGED locals
       ELSE /\ orifice_readings' = convert_readings(req.orifice_readings)
            /\ pitot_readings' = convert_readings(req.pitot_readings)
            /\ pc' = "stage2"
            /\ UNCHANGED response
    /\ UNCHANGED <<beyond, faults>>
    /\ UNCHANGED <<session, req, pipeline, raised, database>>

\* Stage 1, the Reading Validator: the two checks and the conversion.
validate ==
    /\ pc = "validate"
    /\ stages' = Append(stages, 1)
    /\ IF no_readings(req.orifice_readings, req.pitot_readings)
       THEN /\ response' = error_response("No readings provided")
            /\ pc' = "done"
            /\ UNCHANGED locals
       ELSE IF mismatched(req.orifice_readings, req.pitot_readings)
       THEN /\ response' =
                error_response("Mismatched number of orifice and pitot readings")
            /\ pc' = "done"
            /\ UNCHANGED locals
       ELSE IF \/ convert_raises(req.orifice_readings)
               \/ convert_raises(req.pitot_readings)
       THEN /\ response' =
                error_response("Invalid reading format. All values must be numbers.")
            /\ pc' = "done"
            /\ UNCHANGED locals
       ELSE /\ orifice_readings' = convert_readings(req.orifice_readings)
            /\ pitot_readings' = convert_readings(req.pitot_readings)
            /\ pc' = "stage2"
            /\ UNCHANGED response
    /\ UNCHANGED <<beyond, faults>>
    /\ UNCHANGED <<session, req, pipeline, raised, database>>

\* Stage 2, the Physical Model Calculator (process_experiment_data is entered).
physical_model_calculator ==
    /\ pc = "stage2"
    /\ stages' = Append(stages, 2)
    /\ constants' = Some(merge_constants(defaults, custom_constants(req)))
    /\ points' = physical_model(orifice_readings, pitot_readings,
                                merge_constants(defaults, custom_constants(req)))
    /\ clamped' = clamped_count(orifice_readings, pitot_readings,
                                merge_constants(defaults, custom_constants(req)))
    /\ pc' = "stage3"
    /\ UNCHANGED <<beyond, faults>>
    /\ UNCHANGED <<session, req, locals, results, excluded_count, mean_cv, fit,
                   graph_base64, pdf_base64, result, raised, database, response>>

\* The estimator that reports a mean of 0 when no point is left.
discharge_coefficient_estimator_zero_mean ==
    /\ pc = "stage3"
    /\ stages' = Append(stages, 3)
    /\ results' = calibration_points(points)
    /\ excluded_count' = excluded_points(points)
    /\ mean_cv' = IF calibration_points(points) = <<>> THEN Some(0)
                  ELSE Some(mean_of_cv(calibration_points(points)))
    /\ pc' = "stage4"
    /\ UNCHANGED <<raised, response>>
    /\ UNCHANGED <<beyond, constants, faults>>
    /\ UNCHANGED <<session, req, locals, points, clamped, fit, graph_base64,
                   pdf_base64, result, database>>

\* Stage 3, the Discharge Coefficient Estimator.
discharge_coefficient_estimator ==
    /\ pc = "stage3"
    /\ stages' = Append(stages, 3)
    /\ results' = calibration_points(points)
    /\ excluded_count' = excluded_points(points)
    /\ IF calibration_points(points) = <<>>
       THEN /\ except_handler("InsufficientDataError")
            /\ UNCHANGED mean_cv
       ELSE /\ mean_cv' = Some(mean_of_cv(calibration_points(points)))
            /\ pc' = "stage4"
            /\ UNCHANGED <<raised, response>>
    /\ UNCHANGED <<beyond, constants, faults>>
    /\ UNCHANGED <<session, req, locals, points, clamped, fit, graph_base64,
                   pdf_base64, result, database>>

\* The fitter that falls back to the identity line on a degenerate input.
regression_fitter_identity_fallback ==
    /\ pc = "stage4"
    /\ stages' = Append(stages, 4)
    /\ fit' = IF is_degenerate(results)
              THEN Some([slope |-> SCALE, intercept |-> 0, r_squared |-> NaN])
              ELSE Some(regression(results))
    /\ pc' = "stage5"
    /\ UNCHANGED <<raised, response>>
    /\ UNCHANGED <<beyond, constants, faults>>
    /\ UNCHANGED <<session, req, locals, points, clamped, results, excluded_count,
                   mean_cv, graph_base64, pdf_base64, result, database>>

\* Stage 4, the Regression Fitter.
regression_fitter ==
    /\ pc = "stage4"
    /\ stages' = Append(stages, 4)
    /\ IF is_degenerate(results)
       THEN /\ except_handler("DegenerateFitError")
            /\ UNCHANGED fit
       ELSE /\ fit' = Some(regression(results))
            /\ pc' = "stage5"
            /\ UNCHANGED <<raised, response>>
    /\ UNCHANGED <<beyond, constants, faults>>
    /\ UNCHANGED <<session, req, locals, points, clamped, results, excluded_count,
                   mean_cv, graph_base64, pdf_base64, result, database>>

\* Stage 5, the Plot Renderer: the chart, or a RenderError.
plot_renderer ==
    /\ pc = "stage5"
    /\ stages' = Append(stages, 5)
    /\ \/ /\ faults.render # "fails"
          /\ faults' = [faults EXCEPT !.render = "works"]
          /\ graph_base64' = Some(render_chart(points, fit[1], graph_params(req)))
          /\ pc' = "stage6"
          /\ UNCHANGED <<raised, response>>
       \/ /\ faults.render # "works"
          /\ faults' = [faults EXCEPT !.render = "fails"]
          /\ except_handler("RenderError")
          /\ UNCHANGED graph_base64
    /\ UNCHANGED <<beyond, constants>>
    /\ UNCHANGED <<session, req, locals, points, clamped, results, excluded_count,
                   mean_cv, fit, pdf_base64, result, database>>

\* Stage 6, the Report Assembler: the document, or a ReportError.
report_assembler ==
    /\ pc = "stage6"
    /\ stages' = Append(stages, 6)
    /\ \/ /\ faults.report # "fails"
          /\ faults' = [faults EXCEPT !.report = "works"]
          /\ pdf_base64' = Some(build_report(results, mean_cv[1],
                                            equation_text(fit[1]), graph_base64[1]))
          /\ pc' = "stage7"
          /\ UNCHANGED <<raised, response>>
       \/ /\ faults.report # "works"
          /\ faults' = [faults EXCEPT !.report = "fails"]
          /\ except_handler("ReportError")
          /\ UNCHANGED pdf_base64
    /\ UNCHANGED <<beyond, constants>>
    /\ UNCHANGED <<session, req, locals, points, clamped, results, excluded_count,
                   mean_cv, fit, graph_base64, result, database>>

\* Stage 7, the Result Aggregator: process_experiment_data returns.
result_aggregator ==
    /\ pc = "stage7"
    /\ stages' = Append(stages, 7)
    /\ result' = Some(aggregate(results, mean_cv[1], equation_text(fit[1]),
                                graph_base64[1], pdf_base64[1]))
    /\ pc' = "log"
    /\ UNCHANGED <<beyond, constants, faults>>
    /\ UNCHANGED <<session, req, locals, points, clamped, results, excluded_count,
                   mean_cv, fit, graph_base64, pdf_base64, raised, database,
                   response>>

\* log_activity(session['user_id'], 'Fluid Calculation', ...): add and commit,
\* or the commit raises.
log_activity ==
    /\ pc = "log"
    /\ \/ /\ activity_log' = Append(activity_log,
                 activity(session.user_id, "Fluid Calculation", Len(orifice_readings)))
          /\ pc' = "store"
          /\ UNCHANGED <<raised, response>>
       \/ /\ except_handler("SQLAlchemyError")
          /\ UNCHANGED activity_log
    /\ UNCHANGED <<beyond, faults>>
    /\ UNCHANGED <<session, req, locals, stages, pipeline, calculations>>

\* db.session.add(calculation); db.session.commit(), or the commit raises.
store_calculation ==
    /\ pc = "store"
    /\ \/ /\ calculations' = Append(calculations,
                 calculation_record(session.user_id, result[1].mean_cv))
          /\ pc' = "respond"
          /\ UNCHANGED <<raised, response>>
       \/ /\ except_handler("SQLAlchemyError")
          /\ UNCHANGED calculations
    /\ UNCHANGED <<beyond, faults>>
    /\ UNCHANGED <<session, req, locals, stages, pipeline, activity_log>>

\* return jsonify({'success': True, ...})
respond ==
    /\ pc = "respond"
    /\ response' = success_response(result[1])
    /\ pc' = "done"
    /\ UNCHANGED <<beyond, faults>>
    /\ UNCHANGED <<session, req, locals, stages, pipeline, raised, database>>

Next ==
    \/ login_required
    \/ validate
    \/ physical_model_calculator
    \/ discharge_coefficient_estimator
    \/ regression_fitter
    \/ plot_renderer
    \/ report_assembler
    \/ result_aggregator
    \/ log_activity
    \/ store_calculation
    \/ respond

Spec == Init /\ [][Next]_vars

(***************************************************************************)
(* Two requests served one after the other by the same process.            *)
(***************************************************************************)
\* Overrides a caller sends: one key, or three of the four keys.
Overrides ==
    { Some([rho |-> 25000]),
      Some([g |-> 1000, Cd_orifice |-> 100, A_ratio |-> 0]) }

\* Bodies with two well-formed readings, with and without the optional keys.
TwiceRequests ==
    [orifice_readings : { << <<Num(4), Str(1)>>, <<Num(-1), Num(1)>> >>,
                          << <<Num(4), Str(1)>>, <<Num(1)>> >> },
     pitot_readings : { << <<Num(1), Num(1)>>, <<Num(4), Num(1), Num(9)>> >>,
                        << <<Num(0), Num(1)>>, <<Num(0), Num(1)>> >>,
                        << <<Num(4), Num(1), Num(9)>>, <<Num(0), Num(1)>> >> },
     graph_params : {None, Some(<<"Vp", "V0">>)},
     constants : {None} \cup Overrides]

\* What the pipeline gave its caller: the error that ended the run, or the
\* results list and the model_calculation text.
pipeline_outcome ==
    IF result # None
    THEN [error |-> "", results |-> result[1].results,
          model_calculation |-> Some(result[1].model_calculation)]
    ELSE [error |-> IF response.status = 400 THEN response.body.error ELSE "",
          results |-> <<>>, model_calculation |-> None]

\* A second request that meets a process whose defaults the first run
\* has overwritten with its own constants.
second_request_after_overwrite ==
    /\ pc = "done"
    /\ run = 1
    /\ \E data \in TwiceRequests :
          /\ req' = data
          /\ faults' = IF data = req THEN faults ELSE no_faults_known
    /\ first' = Some([req |-> req, outcome |-> pipeline_outcome])
    /\ run' = 2
    /\ defaults' = IF constants = None THEN defaults ELSE constants[1]
    /\ pc' = "request"
    /\ orifice_readings' = <<>>
    /\ pitot_readings' = <<>>
    /\ stages' = <<>>
    /\ points' = <<>>
    /\ clamped' = 0
    /\ results' = <<>>
    /\ excluded_count' = 0
    /\ mean_cv' = None
    /\ fit' = None
    /\ graph_base64' = None
    /\ pdf_base64' = None
    /\ result' = None
    /\ raised' = ""
    /\ response' = no_response
    /\ constants' = None
    /\ UNCHANGED <<session, database, app, elsewhere>>

\* A second request whose renderer and report builder need not behave as
\* they did on the same input before.
second_request_forgetful ==
    /\ pc = "done"
    /\ run = 1
    /\ \E data \in TwiceRequests : req' = data
    /\ faults' = no_faults_known
    /\ first' = Some([req |-> req, outcome |-> pipeline_outcome])
    /\ run' = 2
    /\ pc' = "request"
    /\ orifice_readings' = <<>>
    /\ pitot_readings' = <<>>
    /\ stages' = <<>>
    /\ points' = <<>>
    /\ clamped' = 0
    /\ results' = <<>>
    /\ excluded_count' = 0
    /\ mean_cv' = None
    /\ fit' = None
    /\ graph_base64' = None
    /\ pdf_base64' = None
    /\ result' = None
    /\ raised' = ""
    /\ response' = no_response
    /\ constants' = None
    /\ UNCHANGED <<session, database, defaults, app, elsewhere>>

\* The first request has been answered and a second POST /fluid_calculate
\* arrives: the call starts with fresh locals, the database and the defaults
\* are those the process has, and stages 5 and 6, being deterministic, do on
\* an input they have met what they did before.
second_request ==
    /\ pc = "done"
    /\ run = 1
    /\ \E data \in TwiceRequests :
          /\ req' = data
          /\ faults' = IF data = req THEN faults ELSE no_faults_known
    /\ first' = Some([req |-> req, outcome |-> pipeline_outcome])
    /\ run' = 2
    /\ pc' = "request"
    /\ orifice_readings' = <<>>
    /\ pitot_readings' = <<>>
    /\ stages' = <<>>
    /\ points' = <<>>
    /\ clamped' = 0
    /\ results' = <<>>
    /\ excluded_count' = 0
    /\ mean_cv' = None
    /\ fit' = None
    /\ graph_base64' = None
    /\ pdf_base64' = None
    /\ result' = None
    /\ raised' = ""
    /\ response' = no_response
    /\ constants' = None
    /\ UNCHANGED <<session, database, defaults, app, elsewhere>>

InitTwice ==
    /\ session \in Sessions
    /\ req \in TwiceRequests
    /\ request_received
    /\ process_started
    /\ app_started
    /\ nothing_to_delete
    /\ no_chat
    /\ nothing_posted
    /\ not_imported

NextTwice ==
    \/ login_required
    \/ validate
    \/ physical_model_calculator
    \/ discharge_coefficient_estimator
    \/ regression_fitter
    \/ plot_renderer
    \/ report_assembler
    \/ result_aggregator
    \/ log_activity
    \/ store_calculation
    \/ respond
    \/ second_request

SpecTwice == InitTwice /\ [][NextTwice]_vars

(***************************************************************************)
(* The application: login, logout, the front page and the other routes,    *)
(* requested by two clients whose handlers interleave at the database.     *)
(***************************************************************************)
MaxLog == 3

\* request.form['name'], request.form['role'] of a POST /login: both
\* clients log in as the same person.
Credentials == { [name |-> "ann", role |-> "student"] }

\* Every route of routes.py but index, login and logout: the answer of its
\* first statement to a session without user_id ("redirect" to login, "401",
\* or "none" when it has no such statement), whether its body writes to the
\* database and whether it runs a calculation or a model.
Routes ==
    {
      [name |-> "dashboard", guard |-> "redirect", writes |-> FALSE, computes |-> FALSE],
      [name |-> "calculator", guard |-> "redirect", writes |-> FALSE, computes |-> FALSE],
      [name |-> "unit_converter", guard |-> "redirect", writes |-> FALSE, computes |-> FALSE],
      [name |-> "fluid_calculate", guard |-> "redirect", writes |-> TRUE, computes |-> TRUE],
      [name |-> "download_pdf", guard |-> "redirect", writes |-> FALSE, computes |-> FALSE],
      [name |-> "export_calculations_pdf", guard |-> "redirect", writes |-> FALSE, computes |-> FALSE],
      [name |-> "export_lab_report_pdf", guard |-> "redirect", writes |-> FALSE, computes |-> FALSE],
      [name |-> "export_current_experiment_pdf", guard |-> "redirect", writes |-> FALSE, computes |-> FALSE],
      [name |-> "export_experiment_pdf", guard |-> "redirect", writes |-> FALSE, computes |-> FALSE],
      [name |-> "export_activity_logs_pdf", guard |-> "redirect", writes |-> FALSE, computes |-> FALSE],
      [name |-> "delete_experiment", guard |-> "401", writes |-> TRUE, computes |-> FALSE],
      [name |-> "calculate", guard |-> "redirect", writes |-> TRUE, computes |-> TRUE],
      [name |-> "msds", guard |-> "redirect", writes |-> FALSE, computes |-> FALSE],
      [name |-> "msds_search", guard |-> "401", writes |-> TRUE, computes |-> TRUE],
      [name |-> "msds_enhanced_search", guard |-> "401", writes |-> TRUE, computes |-> TRUE],
      [name |-> "safety", guard |-> "redirect", writes |-> FALSE, computes |-> FALSE],
      [name |-> "documentation", guard |-> "redirect", writes |-> FALSE, computes |-> FALSE],
      [name |-> "new_experiment", guard |-> "redirect", writes |-> TRUE, computes |-> FALSE],
      [name |-> "activity_logs", guard |-> "redirect", writes |-> FALSE, computes |-> FALSE],
      [name |-> "send_chat_message", guard |-> "401", writes |-> TRUE, computes |-> TRUE],
      [name |-> "get_chat_history", guard |-> "401", writes |-> FALSE, computes |-> FALSE],
      [name |-> "clear_chat_history", guard |-> "401", writes |-> TRUE, computes |-> FALSE],
      [name |-> "fetch_pubchem_data", guard |-> "401", writes |-> TRUE, computes |-> FALSE],
      [name |-> "pubchem_test", guard |-> "redirect", writes |-> FALSE, computes |-> FALSE],
      [name |-> "enhanced_chemical_search", guard |-> "401", writes |-> TRUE, computes |-> FALSE],
      [name |-> "enhanced_chemical_data", guard |-> "401", writes |-> TRUE, computes |-> FALSE],
      [name |-> "chemical_properties_summary", guard |-> "401", writes |-> TRUE, computes |-> FALSE],
      [name |-> "enhanced_calculate", guard |-> "redirect", writes |-> TRUE, computes |-> TRUE],
      [name |-> "get_calculation_history", guard |-> "401", writes |-> FALSE, computes |-> FALSE],
      [name |-> "get_periodic_table_data", guard |-> "none", writes |-> FALSE, computes |-> FALSE],
      [name |-> "chemllm_page", guard |-> "redirect", writes |-> FALSE, computes |-> FALSE],
      [name |-> "chemllm_status", guard |-> "401", writes |-> FALSE, computes |-> FALSE],
      [name |-> "chemllm_generate", guard |-> "401", writes |-> TRUE, computes |-> TRUE]
    }

\* What the application's handlers leave alone.
fluid_request ==
    <<session, req, pc, orifice_readings, pitot_readings, stages, pipeline,
      raised, response, faults, defaults, run, first, calculations, elsewhere>>

\* No fluid_calculate request is there.
no_fluid_request ==
    /\ session = no_session
    /\ req = [orifice_readings |-> <<>>, pitot_readings |-> <<>>,
              graph_params |-> None, constants |-> None]
    /\ request_received
    /\ process_started

\* Requests being handled.
in_flight == Cardinality({c \in Clients : handlers[c].pc # "idle"})

\* The activity log has room for an entry of every request in flight and
\* one more.
room == Len(activity_log) + in_flight < MaxLog

\* A client sends a request when it has none in flight.
may_start(c) == handlers[c].pc = "idle"

\* The record of an answered request: the handler ("route" for a handler of
\* the table, with the answer its first statement gives a session without
\* user_id), what it found, what it did and the session it left.
answered(c, route, guard, answer, wrote, computed, session_after) ==
    [route |-> route, guard |-> guard,
     had_user |-> logged_in(sessions[c]), after_logout |-> logged_out[c],
     answer |-> answer, wrote |-> wrote, computed |-> computed,
     session |-> session_after]

\* User.query.filter_by(name=name, role=role).first()
first_user(name, role) ==
    IF \E i \in 1..Len(users) : users[i].name = name /\ users[i].role = role
    THEN Some(users[CHOOSE i \in 1..Len(users) :
                  /\ users[i].name = name /\ users[i].role = role
                  /\ \A j \in 1..(i - 1) :
                        ~(users[j].name = name /\ users[j].role = role)])
    ELSE None

\* The session keys login sets.
session_of(user) ==
    [user_id |-> user.id, user_name |-> user.name, user_role |-> user.role]

\* A guard that answers only the page routes.
denied_pages_only(r, s) == r.guard = "redirect" /\ ~logged_in(s)

\* if 'user_id' not in session: return redirect(...) or jsonify(...), 401
denied(r, s) == r.guard # "none" /\ ~logged_in(s)

\* index: the front page, or the dashboard for a session with user_id.
index(c) ==
    /\ may_start(c)
    /\ last' = answered(c, "index", "none",
                        IF logged_in(sessions[c]) THEN "redirect_dashboard"
                        ELSE "frontpage",
                        FALSE, FALSE, sessions[c])
    /\ UNCHANGED <<users, sessions, handlers, logged_out, activity_log, fluid_request>>

\* login, GET: the form.
login_form(c) ==
    /\ may_start(c)
    /\ last' = answered(c, "login", "none", "login_form", FALSE, FALSE, sessions[c])
    /\ UNCHANGED <<users, sessions, handlers, logged_out, activity_log, fluid_request>>

\* login, POST: the form is read and the user is looked up.
login_post(c) ==
    /\ may_start(c)
    /\ room
    /\ \E cred \in Credentials :
          handlers' = [handlers EXCEPT ![c] =
              [pc |-> IF first_user(cred.name, cred.role) = None
                      THEN "login_create" ELSE "login_finish",
               name |-> cred.name, role |-> cred.role,
               user |-> first_user(cred.name, cred.role), created |-> FALSE]]
    /\ UNCHANGED <<users, sessions, last, logged_out, activity_log, fluid_request>>

\* if not user: User(name=name, role=role, ...) is added and committed, or
\* the commit raises and the request ends with a 500.
login_create(c) ==
    /\ handlers[c].pc = "login_create"
    /\ \/ /\ users' = Append(users, [id |-> Len(users) + 1,
                                      name |-> handlers[c].name,
                                      role |-> handlers[c].role])
          /\ handlers' = [handlers EXCEPT ![c] =
                 [@ EXCEPT !.pc = "login_finish",
                           !.user = Some([id |-> Len(users) + 1,
                                          name |-> handlers[c].name,
                                          role |-> handlers[c].role]),
                           !.created = TRUE]]
          /\ UNCHANGED last
       \/ /\ handlers' = [handlers EXCEPT ![c] = idle]
          /\ last' = answered(c, "login", "none", "500", FALSE, FALSE, sessions[c])
          /\ UNCHANGED users
    /\ UNCHANGED <<sessions, logged_out, activity_log, fluid_request>>

\* The three session keys are set, then log_activity commits and the
\* dashboard redirect is returned, or its commit raises.
login_finish(c) ==
    /\ handlers[c].pc = "login_finish"
    /\ sessions' = [sessions EXCEPT ![c] = session_of(handlers[c].user[1])]
    /\ logged_out' = [logged_out EXCEPT ![c] = FALSE]
    /\ handlers' = [handlers EXCEPT ![c] = idle]
    /\ \/ /\ activity_log' = Append(activity_log,
                 activity(handlers[c].user[1].id, "Authentication", 0))
          /\ last' = answered(c, "login", "none", "redirect_dashboard", TRUE, FALSE,
                              session_of(handlers[c].user[1]))
       \/ /\ last' = answered(c, "login", "none", "500", handlers[c].created, FALSE,
                              session_of(handlers[c].user[1]))
          /\ UNCHANGED activity_log
    /\ UNCHANGED <<users, fluid_request>>

\* logout: log_activity for a session with user_id, then session.clear() and
\* the redirect to index; when the commit of log_activity raises, the
\* request ends with a 500 before session.clear().
logout(c) ==
    /\ may_start(c)
    /\ logged_in(sessions[c]) => room
    /\ IF logged_in(sessions[c])
       THEN \/ /\ activity_log' = Append(activity_log,
                      activity(sessions[c].user_id, "Authentication", 0))
               /\ sessions' = [sessions EXCEPT ![c] = no_session]
               /\ logged_out' = [logged_out EXCEPT ![c] = TRUE]
               /\ last' = answered(c, "logout", "none", "redirect_index", TRUE, FALSE,
                                   no_session)
            \/ /\ last' = answered(c, "logout", "none", "500", FALSE, FALSE, sessions[c])
               /\ UNCHANGED <<activity_log, sessions, logged_out>>
       ELSE /\ sessions' = [sessions EXCEPT ![c] = no_session]
            /\ logged_out' = [logged_out EXCEPT ![c] = TRUE]
            /\ last' = answered(c, "logout", "none", "redirect_index", FALSE, FALSE,
                                no_session)
            /\ UNCHANGED activity_log
    /\ UNCHANGED <<users, handlers, fluid_request>>

\* Any other route: its first statement turns a session without user_id
\* away; otherwise its body runs.
visit(c) ==
    /\ may_start(c)
    /\ \E r \in Routes :
          IF denied(r, sessions[c])
          THEN /\ last' = answered(c, "route", r.guard,
                                   IF r.guard = "redirect" THEN "redirect_login"
                                   ELSE "401",
                                   FALSE, FALSE, sessions[c])
               /\ UNCHANGED activity_log
          ELSE /\ r.writes => room
               /\ activity_log' =
                      IF r.writes
                      THEN Append(activity_log,
                               activity(IF logged_in(sessions[c])
                                        THEN sessions[c].user_id ELSE 0,
                                        "Request", 0))
                      ELSE activity_log
               /\ last' = answered(c, "route", r.guard, "served", r.writes,
                                   r.computes, sessions[c])
    /\ UNCHANGED <<users, sessions, handlers, logged_out, fluid_request>>

InitApp ==
    /\ no_fluid_request
    /\ app_started
    /\ nothing_to_delete
    /\ no_chat
    /\ nothing_posted
    /\ not_imported

NextApp ==
    \/ \E c \in Clients : index(c)
    \/ \E c \in Clients : login_form(c)
    \/ \E c \in Clients : login_post(c)
    \/ \E c \in Clients : login_create(c)
    \/ \E c \in Clients : login_finish(c)
    \/ \E c \in Clients : logout(c)
    \/ \E c \in Clients : visit(c)

SpecApp == InitApp /\ [][NextApp]_vars

(***************************************************************************)
(* delete_experiment: requests of one client, one after the other.         *)
(***************************************************************************)
\* The users that own experiments.
MaxUser == 2

\* The ids of the experiments of the table; one more id is asked for.
MaxExperiment == 3

\* Experiment rows: ids 1 .. MaxExperiment, the last one owned by the
\* other user.
ExperimentRows ==
    {[id |-> i, user_id |-> IF i = MaxExperiment THEN MaxUser ELSE 1] :
        i \in 1..MaxExperiment}

\* The query that looks for the id alone.
find_experiment_of_anyone(experiment_id, user_id) ==
    IF \E e \in experiments : e.id = experiment_id
    THEN Some(CHOOSE e \in experiments : e.id = experiment_id)
    ELSE None

\* Experiment.query.filter_by(id=experiment_id, user_id=session['user_id']).first()
find_experiment(experiment_id, user_id) ==
    IF \E e \in experiments : e.id = experiment_id /\ e.user_id = user_id
    THEN Some(CHOOSE e \in experiments :
                  e.id = experiment_id /\ e.user_id = user_id)
    ELSE None

\* What delete_experiment leaves alone.
outside_deletion ==
    <<req, pc, orifice_readings, pitot_readings, stages, pipeline, raised,
      response, faults, defaults, run, first, calculations, app, chatting,
      posting, assistant>>

\* A DELETE /delete_experiment/<id> arrives: 401 without user_id, 404 when
\* the query finds no experiment of the session user with that id.
delete_request ==
    /\ deletion.pc \in {"idle", "done"}
    /\ \E experiment_id \in 1..(MaxExperiment + 1) :
          deletion' =
              [pc |-> IF /\ logged_in(session)
                         /\ find_experiment(experiment_id, session.user_id) # None
                      THEN "delete" ELSE "done",
               experiment_id |-> experiment_id,
               experiment |-> IF logged_in(session)
                              THEN find_experiment(experiment_id, session.user_id)
                              ELSE None,
               pending |-> "none",
               status |-> IF ~logged_in(session) THEN 401
                          ELSE IF find_experiment(experiment_id, session.user_id) = None
                          THEN 404 ELSE 0,
               before |-> experiments,
               log_before |-> Len(activity_log)]
    /\ UNCHANGED <<session, experiments, activity_log, outside_deletion>>

\* db.session.delete(experiment); db.session.commit(), or the commit raises
\* and leaves the delete in the failed transaction.
delete_commit ==
    /\ deletion.pc = "delete"
    /\ \/ /\ experiments' = experiments \ {deletion.experiment[1]}
          /\ deletion' = [deletion EXCEPT !.pc = "log"]
       \/ /\ deletion' = [deletion EXCEPT !.pc = "except", !.pending = "delete"]
          /\ UNCHANGED experiments
    /\ UNCHANGED <<session, activity_log, outside_deletion>>

\* log_activity(session['user_id'], 'Experiment Deletion', ...) and the
\* success answer, or its commit raises and leaves the entry in the failed
\* transaction.
delete_log ==
    /\ deletion.pc = "log"
    /\ \/ /\ activity_log' = Append(activity_log,
                 activity(session.user_id, "Experiment Deletion", 0))
          /\ deletion' = [deletion EXCEPT !.pc = "done", !.status = 200]
       \/ /\ deletion' = [deletion EXCEPT !.pc = "except", !.pending = "log"]
          /\ UNCHANGED activity_log
    /\ UNCHANGED <<session, experiments, outside_deletion>>

\* except Exception as e: db.session.rollback(); return ..., 500
except_rollback ==
    /\ deletion.pc = "except"
    /\ deletion' = [deletion EXCEPT !.pc = "done", !.status = 500,
                                    !.pending = "none"]
    /\ UNCHANGED <<session, experiments, activity_log, outside_deletion>>

InitDelete ==
    /\ session \in Sessions
    /\ req = [orifice_readings |-> <<>>, pitot_readings |-> <<>>,
              graph_params |-> None, constants |-> None]
    /\ request_received
    /\ process_started
    /\ app_started
    /\ experiments \in SUBSET ExperimentRows
    /\ deletion = no_deletion
    /\ no_chat
    /\ nothing_posted
    /\ not_imported

NextDelete ==
    \/ delete_request
    \/ delete_commit
    \/ delete_log
    \/ except_rollback

SpecDelete == InitDelete /\ [][NextDelete]_vars

(***************************************************************************)
(* LabMateChatbot.process_message. A string is the sequence of its         *)
(* characters.                                                             *)
(***************************************************************************)
\* self.knowledge_base, in the order of its keys.
knowledge_base ==
    <<
      [intent |-> "greetings",
       keywords |-> {<<"h", "e", "l", "l", "o">>,
                     <<"h", "i">>,
                     <<"h", "e", "y">>,
                     <<"g", "o", "o", "d", " ", "m", "o", "r", "n", "i", "n", "g">>,
                     <<"g", "o", "o", "d", " ", "a", "f", "t", "e", "r", "n", "o", "o", "n">>,
                     <<"g", "o", "o", "d", " ", "e", "v", "e", "n", "i", "n", "g">>}],
      [intent |-> "calculations",
       keywords |-> {<<"c", "a", "l", "c", "u", "l", "a", "t", "e">>,
                     <<"h", "o", "w", " ", "m", "u", "c", "h">>,
                     <<"m", "a", "s", "s">>,
                     <<"m", "o", "l", "a", "r", "i", "t", "y">>,
                     <<"v", "o", "l", "u", "m", "e">>,
                     <<"c", "o", "n", "c", "e", "n", "t", "r", "a", "t", "i", "o", "n">>}],
      [intent |-> "chemicals",
       keywords |-> {<<"c", "h", "e", "m", "i", "c", "a", "l">>,
                     <<"r", "e", "a", "g", "e", "n", "t">>,
                     <<"c", "o", "m", "p", "o", "u", "n", "d">>,
                     <<"s", "u", "b", "s", "t", "a", "n", "c", "e">>,
                     <<"m", "o", "l", "e", "c", "u", "l", "e">>}],
      [intent |-> "safety",
       keywords |-> {<<"s", "a", "f", "e", "t", "y">>,
                     <<"h", "a", "z", "a", "r", "d">>,
                     <<"d", "a", "n", "g", "e", "r", "o", "u", "s">>,
                     <<"t", "o", "x", "i", "c">>,
                     <<"c", "o", "r", "r", "o", "s", "i", "v", "e">>,
                     <<"f", "l", "a", "m", "m", "a", "b", "l", "e">>}],
      [intent |-> "experiments",
       keywords |-> {<<"e", "x", "p", "e", "r", "i", "m", "e", "n", "t">>,
                     <<"p", "r", "o", "c", "e", "d", "u", "r", "e">>,
                     <<"p", "r", "o", "t", "o", "c", "o", "l">>,
                     <<"m", "e", "t", "h", "o", "d">>,
                     <<"l", "a", "b", " ", "w", "o", "r", "k">>}],
      [intent |-> "help",
       keywords |-> {<<"h", "e", "l", "p">>,
                     <<"w", "h", "a", "t", " ", "c", "a", "n", " ", "y", "o", "u", " ", "d", "o">>,
                     <<"a", "s", "s", "i", "s", "t">>,
                     <<"s", "u", "p", "p", "o", "r", "t">>,
                     <<"g", "u", "i", "d", "e">>}]
    >>

\* The number of texts of self.responses['greeting'] and ['default'].
responses == [greeting |-> 3, default |-> 2]

\* str.lower() of one character.
to_lower(ch) ==
    CASE ch = "A" -> "a"
      [] ch = "B" -> "b"
      [] ch = "C" -> "c"
      [] ch = "D" -> "d"
      [] ch = "E" -> "e"
      [] ch = "F" -> "f"
      [] ch = "G" -> "g"
      [] ch = "H" -> "h"
      [] ch = "I" -> "i"
      [] ch = "J" -> "j"
      [] ch = "K" -> "k"
      [] ch = "L" -> "l"
      [] ch = "M" -> "m"
      [] ch = "N" -> "n"
      [] ch = "O" -> "o"
      [] ch = "P" -> "p"
      [] ch = "Q" -> "q"
      [] ch = "R" -> "r"
      [] ch = "S" -> "s"
      [] ch = "T" -> "t"
      [] ch = "U" -> "u"
      [] ch = "V" -> "v"
      [] ch = "W" -> "w"
      [] ch = "X" -> "x"
      [] ch = "Y" -> "y"
      [] ch = "Z" -> "z"
      [] OTHER -> ch

\* message.lower()
lower(text) == [i \in 1..Len(text) |-> to_lower(text[i])]

\* keyword in message
contains(text, keyword) ==
    \E i \in 1..(Len(text) - Len(keyword) + 1) :
        SubSeq(text, i, i + Len(keyword) - 1) = keyword

\* any(keyword in message for keyword in keywords) for the keywords of the
\* k-th category
matches(text, k) == \E keyword \in knowledge_base[k].keywords : contains(text, keyword)

\* A classifier that returns the last category that matches.
classify_intent_last_match(text) ==
    IF \E k \in 1..Len(knowledge_base) : matches(text, k)
    THEN knowledge_base[CHOOSE k \in 1..Len(knowledge_base) :
             /\ matches(text, k)
             /\ \A j \in (k + 1)..Len(knowledge_base) : ~matches(text, j)].intent
    ELSE "default"

\* _classify_intent: the key of the first category with a keyword in the
\* message, or 'default'.
classify_intent(text) ==
    IF \E k \in 1..Len(knowledge_base) : matches(text, k)
    THEN knowledge_base[CHOOSE k \in 1..Len(knowledge_base) :
             /\ matches(text, k)
             /\ \A j \in 1..(k - 1) : ~matches(text, j)].intent
    ELSE "default"

\* The if/elif chain of process_message: the method that builds the answer.
handler_of(name) ==
    CASE name = "calculation" -> "_handle_calculation"
      [] name = "chemical_info" -> "_handle_chemical_info"
      [] name = "safety" -> "_handle_safety_info"
      [] name = "experiment" -> "_handle_experiment_help"
      [] name = "greeting" -> "_get_random_response"
      [] name = "help" -> "_handle_help_request"
      [] OTHER -> "_get_random_response"

\* The key of self.responses a random response is taken from.
response_type_of(name) ==
    CASE name = "greeting" -> "greeting"
      [] name \in {"calculation", "chemical_info", "safety", "experiment", "help"} -> ""
      [] OTHER -> "default"

\* The words messages are made of; "this" holds the keyword "hi".
Words ==
    { <<"C", "a", "l", "c", "u", "l", "a", "t", "e">>,
      <<"r", "e", "a", "g", "e", "n", "t">>,
      <<"S", "A", "F", "E", "T", "Y">>,
      <<"e", "x", "p", "e", "r", "i", "m", "e", "n", "t">>,
      <<"h", "e", "l", "l", "o">>,
      <<"h", "e", "l", "p">>,
      <<"t", "h", "i", "s">>,
      <<"n", "o", "w">>,
      <<>> }

\* Two words with a blank between them.
Messages == {w1 \o <<" ">> \o w2 : w1 \in Words, w2 \in Words}

\* What process_message leaves alone.
outside_chat ==
    <<session, req, pc, orifice_readings, pitot_readings, stages, pipeline,
      raised, response, faults, defaults, run, first, database, app, deleting,
      posting, assistant>>

\* message_lower = message.lower(); intent = self._classify_intent(message_lower)
classify ==
    /\ chat_pc = "received"
    /\ intent' = Some(classify_intent(lower(message)))
    /\ chat_pc' = "classified"
    /\ UNCHANGED <<message, reply, outside_chat>>

\* The branch of the intent is taken; _get_random_response picks any text
\* of its response type.
dispatch ==
    /\ chat_pc = "classified"
    /\ \E choice \in 0..3 :
          /\ IF response_type_of(intent[1]) = ""
             THEN choice = 0
             ELSE choice \in 1..responses[response_type_of(intent[1])]
          /\ reply' = Some([handler |-> handler_of(intent[1]),
                            response_type |-> response_type_of(intent[1]),
                            choice |-> choice])
    /\ chat_pc' = "answered"
    /\ UNCHANGED <<message, intent, outside_chat>>

InitChat ==
    /\ no_fluid_request
    /\ app_started
    /\ nothing_to_delete
    /\ message \in Messages
    /\ intent = None
    /\ reply = None
    /\ chat_pc = "received"
    /\ nothing_posted
    /\ not_imported

NextChat ==
    \/ classify
    \/ dispatch

SpecChat == InitChat /\ [][NextChat]_vars

(***************************************************************************)
(* send_chat_message and save_conversation: requests of one client, one    *)
(* after the other. A string is the sequence of its characters.            *)
(***************************************************************************)
\* The conversations the table has room for.
MaxChat == 2

\* The characters str.strip() removes.
Whitespace == {" ", "\t", "\n"}

\* The 'message' of the JSON body: None for a body without the key.
Bodies ==
    { None, Some(<<>>), Some(<<" ">>), Some(<<" ", "\t", "\n">>),
      Some(<<"h", "i">>), Some(<<" ", "h", "i", "\n">>),
      Some(<<"a", " ", "b">>) }

\* What the chatbot answers.
BotResponses == { <<"o", "k">>, <<"n", "o">> }

\* A ChatMessage of another user, stored before.
EarlierMessage ==
    [user_id |-> 2, message |-> <<"h", "i">>, response |-> <<>>,
     is_user_message |-> TRUE]

\* A strip that returns its argument.
strip_nothing(text) == text

\* str.strip(): the text from its first to its last character that is not
\* whitespace.
strip(text) ==
    IF \A i \in 1..Len(text) : text[i] \in Whitespace THEN <<>>
    ELSE SubSeq(text,
                CHOOSE i \in 1..Len(text) :
                    /\ text[i] \notin Whitespace
                    /\ \A j \in 1..(i - 1) : text[j] \in Whitespace,
                CHOOSE i \in 1..Len(text) :
                    /\ text[i] \notin Whitespace
                    /\ \A j \in (i + 1)..Len(text) : text[j] \in Whitespace)

\* data.get('message', '')
message_of(data) == IF data = None THEN <<>> ELSE data[1]

\* The two rows, the bot response first.
conversation_bot_first(user_id, user_message, bot_response) ==
    << [user_id |-> user_id, message |-> <<>>, response |-> bot_response,
        is_user_message |-> FALSE],
       [user_id |-> user_id, message |-> user_message, response |-> <<>>,
        is_user_message |-> TRUE] >>

\* save_conversation: the ChatMessage rows it adds, in the order of the adds.
conversation(user_id, user_message, bot_response) ==
    << [user_id |-> user_id, message |-> user_message, response |-> <<>>,
        is_user_message |-> TRUE],
       [user_id |-> user_id, message |-> <<>>, response |-> bot_response,
        is_user_message |-> FALSE] >>

\* What send_chat_message leaves alone.
outside_posting ==
    <<req, pc, orifice_readings, pitot_readings, stages, pipeline, raised,
      response, faults, defaults, run, first, calculations, app, deleting,
      chatting, assistant>>

\* except Exception as e: return jsonify({'error': str(e)}), 500
send_except == [sending EXCEPT !.pc = "done", !.status = 500]

\* A POST /chatbot/send arrives: 401 without user_id, 400 when the stripped
\* message is empty.
send_request ==
    /\ sending.pc \in {"idle", "done"}
    /\ Len(chat_messages) < 2 * MaxChat
    /\ \E data \in Bodies :
          sending' =
              [pc |-> IF logged_in(session) /\ strip(message_of(data)) # <<>>
                      THEN "process" ELSE "done",
               data |-> data,
               user_message |-> IF logged_in(session)
                                THEN strip(message_of(data)) ELSE <<>>,
               bot_response |-> <<>>,
               status |-> IF ~logged_in(session) THEN 401
                          ELSE IF strip(message_of(data)) = <<>> THEN 400
                          ELSE 0,
               calls |-> <<>>,
               before |-> chat_messages,
               log_before |-> Len(activity_log)]
    /\ UNCHANGED <<session, chat_messages, activity_log, outside_posting>>

\* bot_response = enhanced_chatbot.process_message(...): a response, or an
\* exception.
invoke_chatbot ==
    /\ sending.pc = "process"
    /\ \/ \E text \in BotResponses :
             sending' = [sending EXCEPT
                            !.pc = "save",
                            !.bot_response = text,
                            !.calls = Append(@, "process_message")]
       \/ sending' = [send_except EXCEPT !.calls = Append(@, "process_message")]
    /\ UNCHANGED <<session, chat_messages, activity_log, outside_posting>>

\* save_conversation(session['user_id'], user_message, bot_response, db): two
\* adds and one commit, or the commit raises.
save_conversation ==
    /\ sending.pc = "save"
    /\ \/ /\ chat_messages' = chat_messages \o
                 conversation(session.user_id, sending.user_message,
                              sending.bot_response)
          /\ sending' = [sending EXCEPT
                             !.pc = "log",
                             !.calls = Append(@, "save_conversation")]
       \/ /\ sending' = [send_except EXCEPT
                             !.calls = Append(@, "save_conversation")]
          /\ UNCHANGED chat_messages
    /\ UNCHANGED <<session, activity_log, outside_posting>>

\* log_activity(session['user_id'], 'Chatbot', ...) and the success answer,
\* or its commit raises.
log_chat_activity ==
    /\ sending.pc = "log"
    /\ \/ /\ activity_log' = Append(activity_log,
                 activity(session.user_id, "Chatbot", 0))
          /\ sending' = [sending EXCEPT
                             !.pc = "done", !.status = 200,
                             !.calls = Append(@, "log_activity")]
       \/ /\ sending' = [send_except EXCEPT !.calls = Append(@, "log_activity")]
          /\ UNCHANGED activity_log
    /\ UNCHANGED <<session, chat_messages, outside_posting>>

InitSend ==
    /\ session \in Sessions
    /\ req = [orifice_readings |-> <<>>, pitot_readings |-> <<>>,
              graph_params |-> None, constants |-> None]
    /\ request_received
    /\ process_started
    /\ app_started
    /\ nothing_to_delete
    /\ no_chat
    /\ chat_messages \in { <<>>, <<EarlierMessage>> }
    /\ sending = no_sending
    /\ not_imported

NextSend ==
    \/ send_request
    \/ invoke_chatbot
    \/ save_conversation
    \/ log_chat_activity

SpecSend == InitSend /\ [][NextSend]_vars

(***************************************************************************)
(* The module chemllm_integration: the import of torch and transformers,   *)
(* the construction of the global instance chemllm, and the calls the      *)
(* routes make of it afterwards.                                           *)
(***************************************************************************)
\* Most calls made of chemllm that are kept.
MaxAsk == 2

\* What the import at the top of the module can give: it failed, or it
\* succeeded on a machine without or with a CUDA device.
Imports ==
    { [available |-> FALSE, cuda |-> FALSE],
      [available |-> TRUE, cuda |-> FALSE],
      [available |-> TRUE, cuda |-> TRUE] }

\* The prompts generate_response is given.
Prompts == { "", "molecular formula of platinum" }

\* How a generation ends once the model is available: a cleaned response,
\* the apology for an empty output, the timeout message, the error message.
Generations == { "response", "apology", "timeout", "error" }

TORCH_AVAILABLE == torch.available

\* Everything outside the state of chemllm_integration.
outside_assistant ==
    <<session, req, pc, orifice_readings, pitot_readings, stages, pipeline,
      raised, response, faults, defaults, run, first, database, app, deleting,
      chatting, posting>>

\* A failed load that leaves the tokenizer it had already loaded.
load_failed_keeps_tokenizer(self) ==
    [self EXCEPT !.is_loaded = FALSE, !.model = None]

\* What _load_model leaves when the load fails.
load_failed(self) ==
    [self EXCEPT !.is_loaded = FALSE, !.model = None, !.tokenizer = None]

is_available(self) ==
    /\ self.enabled
    /\ self.is_loaded
    /\ self.model # None
    /\ self.tokenizer # None

get_model_info(self) ==
    IF ~self.enabled THEN [status |-> "disabled", device |-> "unknown"]
    ELSE IF ~TORCH_AVAILABLE
    THEN [status |-> "dependencies_missing", device |-> "unknown"]
    ELSE IF ~is_available(self)
    THEN [status |-> "not_loaded", device |-> self.device]
    ELSE [status |-> "loaded", device |-> self.device]

\* What generate_response returns before it touches the model, or "" when
\* it goes on to generate.
refusal(self) ==
    IF ~TORCH_AVAILABLE THEN "requires PyTorch and Transformers"
    ELSE IF ~self.enabled THEN "temporarily disabled"
    ELSE IF ~is_available(self) THEN "model is not available"
    ELSE ""

\* __init__ up to the call of _load_model.
init ==
    /\ construction.pc = "import"
    /\ chemllm' =
           [model |-> None, tokenizer |-> None,
            device |-> IF TORCH_AVAILABLE /\ torch.cuda THEN "cuda" ELSE "cpu",
            is_loaded |-> FALSE, enabled |-> TRUE]
    /\ construction' = [construction EXCEPT !.pc = "load"]
    /\ UNCHANGED <<torch, answers, outside_assistant>>

\* _load_model: without torch it gives up at once, else it enters the try.
load_model ==
    /\ construction.pc = "load"
    /\ IF ~TORCH_AVAILABLE
       THEN /\ chemllm' = load_failed(chemllm)
            /\ construction' = [construction EXCEPT !.pc = "constructed"]
       ELSE /\ chemllm' = chemllm
            /\ construction' = [construction EXCEPT !.pc = "tokenizer"]
    /\ UNCHANGED <<torch, answers, outside_assistant>>

\* AutoTokenizer.from_pretrained returns the tokenizer or raises.
load_tokenizer ==
    /\ construction.pc = "tokenizer"
    /\ \/ /\ chemllm' = [chemllm EXCEPT !.tokenizer = Some("AutoTokenizer")]
          /\ construction' = [construction EXCEPT !.pc = "model"]
       \/ /\ chemllm' = chemllm
          /\ construction' = [pc |-> "except", raised |-> "tokenizer"]
    /\ UNCHANGED <<torch, answers, outside_assistant>>

\* AutoModelForCausalLM.from_pretrained returns the model or raises.
load_pretrained ==
    /\ construction.pc = "model"
    /\ \/ /\ chemllm' = [chemllm EXCEPT !.model = Some("AutoModelForCausalLM")]
          /\ construction' =
                 [construction EXCEPT
                      !.pc = IF chemllm.device = "cpu" THEN "to" ELSE "loaded"]
       \/ /\ chemllm' = chemllm
          /\ construction' = [pc |-> "except", raised |-> "model"]
    /\ UNCHANGED <<torch, answers, outside_assistant>>

\* On the cpu: self.model = self.model.to(self.device), which may raise.
model_to_device ==
    /\ construction.pc = "to"
    /\ \/ /\ chemllm' = [chemllm EXCEPT !.model = Some("AutoModelForCausalLM")]
          /\ construction' = [construction EXCEPT !.pc = "loaded"]
       \/ /\ chemllm' = chemllm
          /\ construction' = [pc |-> "except", raised |-> "to"]
    /\ UNCHANGED <<torch, answers, outside_assistant>>

\* self.is_loaded = True ends the try block and the construction.
set_loaded ==
    /\ construction.pc = "loaded"
    /\ chemllm' = [chemllm EXCEPT !.is_loaded = TRUE]
    /\ construction' = [construction EXCEPT !.pc = "constructed"]
    /\ UNCHANGED <<torch, answers, outside_assistant>>

\* except Exception: the three attributes are reset.
load_except ==
    /\ construction.pc = "except"
    /\ chemllm' = load_failed(chemllm)
    /\ construction' = [construction EXCEPT !.pc = "constructed"]
    /\ UNCHANGED <<torch, answers, outside_assistant>>

\* The routes call chemllm only once the module is imported, that is once
\* the construction has returned; a call only reads the object.
may_ask ==
    /\ construction.pc = "constructed"
    /\ Len(answers) < MaxAsk

is_chemllm_available ==
    /\ may_ask
    /\ answers' =
           Append(answers,
                  [call |-> "is_available", prompt |-> "",
                   returned |-> IF is_available(chemllm) THEN "True" ELSE "False",
                   device |-> ""])
    /\ UNCHANGED <<torch, chemllm, construction, outside_assistant>>

get_chemllm_info ==
    /\ may_ask
    /\ answers' =
           Append(answers,
                  [call |-> "get_model_info", prompt |-> "",
                   returned |-> get_model_info(chemllm).status,
                   device |-> get_model_info(chemllm).device])
    /\ UNCHANGED <<torch, chemllm, construction, outside_assistant>>

generate_chemllm_response ==
    /\ may_ask
    /\ \E prompt \in Prompts :
           \E generation \in Generations :
               answers' =
                   Append(answers,
                          [call |-> "generate_response", prompt |-> prompt,
                           returned |-> IF refusal(chemllm) # ""
                                        THEN refusal(chemllm) ELSE generation,
                           device |-> ""])
    /\ UNCHANGED <<torch, chemllm, construction, outside_assistant>>

InitLLM ==
    /\ no_fluid_request
    /\ app_started
    /\ nothing_to_delete
    /\ no_chat
    /\ nothing_posted
    /\ torch \in Imports
    /\ chemllm = no_chemllm
    /\ construction = [pc |-> "import", raised |-> ""]
    /\ answers = <<>>

NextLLM ==
    \/ init
    \/ load_model
    \/ load_tokenizer
    \/ load_pretrained
    \/ model_to_device
    \/ set_loaded
    \/ load_except
    \/ is_chemllm_available
    \/ get_chemllm_info
    \/ generate_chemllm_response

SpecLLM == InitLLM /\ [][NextLLM]_vars

(***************************************************************************)
(* The claims.                                                             *)
(***************************************************************************)
\* The request's two reading sequences.
N_orifice == Len(req.orifice_readings)

N_pitot == Len(req.pitot_readings)

\* process_experiment_data has been called, or is about to be.
pipeline_called ==
    \/ pc \in {"stage2", "stage3", "stage4", "stage5", "stage6", "stage7",
               "log", "store", "respond"}
    \/ \E i \in 1..Len(stages) : stages[i] >= 2

\* The request has been answered with a failure.
failed_with(messages) ==
    /\ response.status = 400
    /\ response.body.success = FALSE
    /\ response.body.error \in messages

ValidationMessages ==
    {"No readings provided", "Mismatched number of orifice and pitot readings",
     "Invalid reading format. All values must be numbers."}

\* C1: an authenticated request with an empty reading sequence, or with two
\* sequences of different lengths, is answered with a validation error;
\* process_experiment_data is never called for it and neither an activity
\* log nor a calculation record is written.
C1_EmptyOrMismatchedRejected ==
    (/\ logged_in(session)
     /\ (N_orifice = 0 \/ N_pitot = 0 \/ N_orifice # N_pitot))
    => /\ ~pipeline_called
       /\ activity_log = <<>>
       /\ calculations = <<>>
       /\ pc = "done" =>
            failed_with({"No readings provided",
                         "Mismatched number of orifice and pitot readings"})

\* C1 happens: three orifice readings against two pitot readings, rejected.
C1_Witness ==
    /\ logged_in(session)
    /\ N_orifice = 3
    /\ N_pitot = 2
    /\ pc = "done"
    /\ response.status = 400

\* An element that cannot be parsed as a pair of finite real numbers: a
\* component is missing, is not a number, or is not finite.
not_a_finite_pair(r) ==
    \/ Len(r) < 2
    \/ r[1].k \notin {"num", "str"}
    \/ r[2].k \notin {"num", "str"}

\* C2: when an element of either reading sequence cannot be parsed as a pair
\* of finite real numbers, validation fails and the pipeline is not run.
C2_UnparsableRejected ==
    (/\ logged_in(session)
     /\ \/ \E i \in 1..N_orifice : not_a_finite_pair(req.orifice_readings[i])
        \/ \E i \in 1..N_pitot : not_a_finite_pair(req.pitot_readings[i]))
    => /\ ~pipeline_called
       /\ pc = "done" => failed_with(ValidationMessages)

ResultFields ==
    {"results", "mean_cv", "model_calculation", "graph_base64", "pdf_base64"}

\* C3: every response to an authenticated request is a complete success with
\* the five result fields, or a failure with one error description and no
\* result field; before the response nothing has been sent.
C3_AllOrNothingResponse ==
    logged_in(session) =>
        IF pc = "done"
        THEN \/ /\ response.status = 200
                /\ response.body.success = TRUE
                /\ DOMAIN response.body = {"success"} \cup ResultFields
                /\ response.body.results = results
                /\ response.body.mean_cv = mean_cv[1]
                /\ response.body.model_calculation = equation_text(fit[1])
                /\ response.body.graph_base64 = graph_base64[1]
                /\ response.body.pdf_base64 = pdf_base64[1]
             \/ /\ response.status = 400
                /\ response.body.success = FALSE
                /\ DOMAIN response.body = {"success", "error"}
        ELSE response = no_response

\* C3 happens: the report stage fails after the chart was built, and the
\* response carries the error alone.
C3_Witness ==
    /\ logged_in(session)
    /\ pc = "done"
    /\ raised = "ReportError"
    /\ graph_base64 # None
    /\ Len(results) = 3

\* C4: the stages run in the order 1..7, each at most once; the pipeline
\* returns a result only after stage 7; a request is answered only after
\* stage 7 or with a failure; a validation failure ends the run at stage 1.
C4_StagesInOrderOnce ==
    /\ \A i \in 1..Len(stages) : stages[i] = i
    /\ Len(stages) <= 7
    /\ result # None => Len(stages) = 7
    /\ (logged_in(session) /\ pc = "done") =>
           \/ response.status = 200 /\ Len(stages) = 7
           \/ response.status = 400
    /\ (response.status = 400 /\ response.body.error \in ValidationMessages)
           => (stages = <<1>> /\ pc = "done")
    /\ raised \in {"InsufficientDataError", "DegenerateFitError", "RenderError",
                   "ReportError"} => pc = "done"

\* C4 happens: a run went through all seven stages and was answered.
C4_Witness ==
    /\ pc = "done"
    /\ response.status = 200
    /\ stages = <<1, 2, 3, 4, 5, 6, 7>>

\* C5: when the pipeline succeeds on a reading set of length N, the number of
\* CalibrationPoints in results plus the number of excluded points is N.
C5_ResultsPlusExcludedIsN ==
    result # None =>
        /\ N_orifice = N_pitot
        /\ Len(result[1].results) + excluded_count = N_orifice

\* C5 happens: a successful run with an excluded point among three readings.
C5_Witness ==
    /\ result # None
    /\ N_orifice = 3
    /\ excluded_count = 1
    /\ Len(result[1].results) = 2

\* The points stage 3 must keep, and cv = V0 / Vp recomputed for point i.
kept == {i \in 1..Len(points) : points[i].vp # 0}

ratio(i) ==
    IF points[i].v0 = NaN \/ points[i].vp = NaN THEN NaN
    ELSE (points[i].v0 * SCALE) \div points[i].vp

RECURSIVE sum_of_ratios(_)
sum_of_ratios(S) ==
    IF S = {} THEN 0
    ELSE LET i == CHOOSE j \in S : TRUE
         IN  ratio(i) + sum_of_ratios(S \ {i})

\* C6: once stage 3 has run, a point is excluded exactly when its Vp is 0,
\* every kept row carries cv = V0 / Vp, and when a point is kept the stage
\* does not raise and mean_cv is the arithmetic mean of cv over the kept points.
C6_MeanOverNonExcluded ==
    Len(stages) >= 3 =>
        /\ \A i \in 1..Len(points) :
               (points[i].vp = 0) <=>
                   ~(\E k \in 1..Len(results) : results[k].index = i)
        /\ Len(results) = Cardinality(kept)
        /\ excluded_count = Len(points) - Cardinality(kept)
        /\ \A k \in 1..Len(results) : results[k].cv = ratio(results[k].index)
        /\ kept # {} =>
               /\ raised # "InsufficientDataError"
               /\ mean_cv # None
               /\ IF \E i \in kept : ratio(i) = NaN
                  THEN mean_cv[1] = NaN
                  ELSE /\ mean_cv[1] * Cardinality(kept) <= sum_of_ratios(kept)
                       /\ sum_of_ratios(kept) < (mean_cv[1] + 1) * Cardinality(kept)

\* C6 happens: three readings, one excluded, two kept with different cv.
C6_Witness ==
    /\ Len(stages) >= 3
    /\ Len(points) = 3
    /\ Cardinality(kept) = 2
    /\ mean_cv # None
    /\ results[1].cv # results[2].cv
    /\ results[1].cv # NaN
    /\ results[2].cv # NaN

\* C7: when every point of a validated reading set has Vp = 0, stage 3 fails
\* with InsufficientDataError: no mean_cv is reported, stages 4..7 do not run
\* and the request is answered with that error.
C7_AllExcludedFails ==
    (/\ Len(stages) >= 3
     /\ \A i \in 1..Len(points) : points[i].vp = 0)
    => /\ pc = "done"
       /\ raised = "InsufficientDataError"
       /\ failed_with({"InsufficientDataError"})
       /\ stages = <<1, 2, 3>>
       /\ mean_cv = None
       /\ fit = None
       /\ graph_base64 = None
       /\ pdf_base64 = None
       /\ result = None

\* C7 happens: three readings, all with Vp = 0, and stage 3 has run.
C7_Witness ==
    /\ Len(stages) >= 3
    /\ Len(points) = 3
    /\ \A i \in 1..3 : points[i].vp = 0
    /\ excluded_count = 3

\* All the kept rows have one and the same finite Vp.
same_vp ==
    \A j, k \in 1..Len(results) :
        results[j].vp = results[k].vp /\ results[j].vp # NaN

\* C8: when all the kept points have the same Vp, a single kept point
\* included, stage 4 fails with DegenerateFitError: no fit, no chart and no
\* report are produced and the request is answered with that error.
C8_DegenerateFitFails ==
    (Len(stages) >= 4 /\ same_vp)
    => /\ pc = "done"
       /\ raised = "DegenerateFitError"
       /\ failed_with({"DegenerateFitError"})
       /\ stages = <<1, 2, 3, 4>>
       /\ fit = None
       /\ graph_base64 = None
       /\ pdf_base64 = None
       /\ result = None

\* C8 happens: two kept points with the same Vp reach stage 4.
C8_Witness ==
    /\ Len(stages) >= 4
    /\ Len(results) = 2
    /\ same_vp

\* The float a JSON component stands for.
value_of(j) == IF j.k = "nan" THEN NaN ELSE j.v

\* C9: once validation has succeeded, each sequence passed to the computation
\* has the length of its input, each element is a 2-tuple of floats, and
\* element i is made of the first two components of input element i.
C9_ConversionKeepsOrder ==
    pipeline_called =>
        /\ Len(orifice_readings) = N_orifice
        /\ Len(pitot_readings) = N_pitot
        /\ \A i \in 1..N_orifice :
               /\ Len(orifice_readings[i]) = 2
               /\ orifice_readings[i] \in Int \X Int
               /\ orifice_readings[i][1] = value_of(req.orifice_readings[i][1])
               /\ orifice_readings[i][2] = value_of(req.orifice_readings[i][2])
        /\ \A i \in 1..N_pitot :
               /\ Len(pitot_readings[i]) = 2
               /\ pitot_readings[i] \in Int \X Int
               /\ pitot_readings[i][1] = value_of(req.pitot_readings[i][1])
               /\ pitot_readings[i][2] = value_of(req.pitot_readings[i][2])

\* C9 happens: three readings with different values, one of them with a
\* third component, pass validation.
C9_Witness ==
    /\ pc = "stage2"
    /\ Len(pitot_readings) = 3
    /\ pitot_readings[1][1] # pitot_readings[3][1]
    /\ \E i \in 1..3 : Len(req.pitot_readings[i]) = 3

\* The radicand of velocity formula i is negative.
negative_orifice_radicand(i) ==
    /\ raw_of(orifice_readings[i]) # NaN
    /\ orifice_radicand(raw_of(orifice_readings[i]), DEFAULT_CONSTANTS) < 0

negative_pitot_radicand(i) ==
    /\ raw_of(pitot_readings[i]) # NaN
    /\ pitot_radicand(raw_of(pitot_readings[i]), DEFAULT_CONSTANTS) < 0

\* C10: a negative radicand does not raise: stage 2 completes, the velocity
\* is exactly 0, and a point whose Pitot radicand is negative is excluded by
\* stage 3.
C10_NegativeRadicandClamped ==
    Len(stages) >= 2 =>
        /\ Len(stages) = 2 => (pc = "stage3" /\ raised = "")
        /\ Len(points) = N_orifice
        /\ \A i \in 1..Len(points) :
               /\ negative_orifice_radicand(i) => points[i].v0 = 0
               /\ negative_pitot_radicand(i) =>
                      /\ points[i].vp = 0
                      /\ Len(stages) >= 3 =>
                             /\ ~(\E k \in 1..Len(results) : results[k].index = i)
                             /\ excluded_count >= 1

\* C10 happens: a reading with both radicands negative sits among kept points
\* and stage 3 has excluded it.
C10_Witness ==
    /\ Len(stages) >= 3
    /\ Len(results) >= 1
    /\ \E i \in 1..Len(points) :
           negative_orifice_radicand(i) /\ negative_pitot_radicand(i)

(***************************************************************************)
(* Claims on the constants of a run and on runs that follow each other,    *)
(* checked under SpecTwice.                                                *)
(***************************************************************************)
\* Stage 2 of the current run has been executed.
stage2_done == \E i \in 1..Len(stages) : stages[i] = 2

\* The value the caller's body asks for under key k.
expected_constant(data, k) ==
    IF data.constants # None /\ k \in DOMAIN data.constants[1]
    THEN data.constants[1][k]
    ELSE DEFAULT_CONSTANTS[k]

\* C11: from stage 2 to the end of a run its constants are the defaults
\* overridden key by key: a key of the caller's override map has the caller's
\* value, every other key (every key when there is no map) has its default,
\* and the points of the run were computed with these constants.
C11_ConstantsOverriddenKeyByKey ==
    stage2_done =>
        /\ constants # None
        /\ DOMAIN constants[1] = ConstantKeys
        /\ \A k \in ConstantKeys : constants[1][k] = expected_constant(req, k)
        /\ points = physical_model(orifice_readings, pitot_readings, constants[1])

\* A run with the override {rho: 250.0} has succeeded with rho = 250.0 and
\* the default g.
C11_Witness ==
    /\ pc = "done"
    /\ response.status = 200
    /\ req.constants = Some([rho |-> 25000])
    /\ constants[1].rho = 25000
    /\ constants[1].g = 981

own_constants(data) == merge_constants(DEFAULT_CONSTANTS, custom_constants(data))

own_results(data) ==
    calibration_points(physical_model(convert_readings(data.orifice_readings),
                                      convert_readings(data.pitot_readings),
                                      own_constants(data)))

C14_SuccessStoredOneCalculation ==
    /\ pc = "respond" => Len(calculations) = 1
    /\ response.status = 200 =>
          /\ Len(calculations) = 1
          /\ calculations[1].user_id = session.user_id
          /\ calculations[1].reagent = "Pitot Tube Experiment"
          /\ calculations[1].mass_needed = response.body.mean_cv

\* A request has succeeded with a mean_cv that is not 0.
C14_Witness ==
    /\ pc = "done"
    /\ response.status = 200
    /\ response.body.mean_cv # 0
    /\ Len(calculations) = 1

\* C15: an authenticated request answered with an error has persisted no
\* activity-log entry and no calculation record.
C15_ErrorPersistsNothing ==
    (logged_in(session) /\ response.status = 400) =>
        (activity_log = <<>> /\ calculations = <<>>)

(***************************************************************************)
(* Claims on sessions and users, checked under SpecApp.                    *)
(***************************************************************************)
\* A request other than a login has been answered for a session that had no
\* user_id.
anonymous_answered == last.route \notin {"", "login"} /\ ~last.had_user

\* C16 as stated: except for login, a request whose session has no user_id
\* changes no database record and runs no calculation or model, and is
\* answered only with a redirect to login or a 401.
C16_AnonymousOnlyTurnedAway ==
    anonymous_answered =>
        /\ ~last.wrote
        /\ ~last.computed
        /\ last.answer \in {"redirect_login", "401"}

\* C16, amended: except for login, a request whose session has no user_id
\* changes no database record and runs no calculation or model; every
\* handler that starts with the session check answers it with a redirect to
\* login or a 401, and the handlers without the check (index, logout and
\* get_periodic_table_data) answer it without writing or calculating.
C16_AnonymousNeverWritesOrComputes ==
    /\ \A r \in Routes :
          r.guard = "none" =>
              (r.name = "get_periodic_table_data" /\ ~r.writes /\ ~r.computes)
    /\ anonymous_answered =>
          /\ ~last.wrote
          /\ ~last.computed
          /\ last.session = no_session
          /\ (last.route = "route" /\ last.guard # "none") =>
                last.answer \in {"redirect_login", "401"}
          /\ (last.route \in {"index", "logout"} \/ last.guard = "none") =>
                last.answer \in {"frontpage", "redirect_index", "served"}

\* A handler that answers with 401 has turned a session without user_id
\* away while a user existed and the log had an entry.
C16_Witness ==
    /\ anonymous_answered
    /\ last.answer = "401"
    /\ Len(users) > 0
    /\ Len(activity_log) > 0

\* C17: at most one User exists per (name, role), and the keys of every
\* session with user_id are those of a User record.
C17_OneUserPerNameAndRole ==
    /\ \A i, j \in 1..Len(users) :
          (users[i].name = users[j].name /\ users[i].role = users[j].role)
              => i = j
    /\ \A c \in Clients :
          logged_in(sessions[c]) =>
              \E i \in 1..Len(users) : sessions[c] = session_of(users[i])

\* C18: a logout leaves the session empty and has logged exactly when the
\* session had a user_id, and a handler with the session check turns a
\* client away whose last login was followed by a logout.
C18_LogoutEmptiesSession ==
    /\ last.route = "logout" =>
          /\ last.session = no_session
          /\ last.wrote <=> last.had_user
    /\ (last.route = "route" /\ last.guard # "none" /\ last.after_logout) =>
          last.answer \in {"redirect_login", "401"}

(***************************************************************************)
(* The claim on delete_experiment, checked under SpecDelete.               *)
(***************************************************************************)
\* The experiment asked for existed and belonged to the session user when
\* the request arrived.
own_target ==
    /\ logged_in(session)
    /\ \E e \in deletion.before :
          e.id = deletion.experiment_id /\ e.user_id = session.user_id

\* The experiments a request has removed so far.
removed == deletion.before \ experiments

\* C19: a request removes nothing but the experiment asked for, and only
\* when it belongs to the session user; an id that does not exist or belongs
\* to another user is answered 404 with every experiment and the log
\* unchanged; a success has removed exactly that experiment and logged the
\* deletion, and the log entry is written only after the delete is
\* committed; after an exception nothing is left in the transaction.
C19_DeleteOnlyOwnExperiment ==
    /\ experiments \subseteq deletion.before \/ deletion.pc = "idle"
    /\ \A e \in removed :
          own_target /\ e.id = deletion.experiment_id /\ e.user_id = session.user_id
    /\ (deletion.pc = "done" /\ logged_in(session) /\ ~own_target) =>
          /\ deletion.status = 404
          /\ experiments = deletion.before
          /\ Len(activity_log) = deletion.log_before
    /\ deletion.status \in {401, 404} =>
          /\ experiments = deletion.before
          /\ Len(activity_log) = deletion.log_before
    /\ deletion.status = 200 =>
          /\ own_target
          /\ Cardinality(removed) = 1
          /\ Len(activity_log) = deletion.log_before + 1
          /\ activity_log[Len(activity_log)] =
                activity(session.user_id, "Experiment Deletion", 0)
    /\ (deletion.pc = "log" \/ Len(activity_log) > deletion.log_before) =>
          (Cardinality(removed) = 1 /\ deletion.pending # "delete")
    /\ deletion.status = 500 => deletion.pending = "none"

\* User 1 has asked for the experiment of the other user, which is still
\* there, after deleting one of its own.
C19_Witness ==
    /\ deletion.pc = "done"
    /\ deletion.status = 404
    /\ deletion.experiment_id = MaxExperiment
    /\ \E e \in experiments : e.id = MaxExperiment
    /\ Len(activity_log) = 1

(***************************************************************************)
(* The claim on process_message, checked under SpecChat.                   *)
(***************************************************************************)
\* C20: the answer is built from the classified intent: by the calculation
\* handler for a calculation keyword, the chemical-information handler for a
\* chemical keyword, the experiment handler for an experiment keyword, a
\* greeting response for a greeting keyword, and a default response only
\* for a message without any keyword.
C20_AnsweredByIntentHandler ==
    chat_pc = "answered" =>
        /\ intent[1] = "calculations" => reply[1].handler = "_handle_calculation"
        /\ intent[1] = "chemicals" => reply[1].handler = "_handle_chemical_info"
        /\ intent[1] = "experiments" => reply[1].handler = "_handle_experiment_help"
        /\ intent[1] = "greetings" => reply[1].response_type = "greeting"
        /\ reply[1].response_type = "default" =>
              \A k \in 1..Len(knowledge_base) : ~matches(lower(message), k)

\* The categories in the order the claim gives them.
DeclarationOrder ==
    <<"greetings", "calculations", "chemicals", "safety", "experiments", "help">>

\* The text _classify_intent was called with.
classified_text == lower(message)

\* C21: the knowledge base declares greetings, calculations, chemicals,
\* safety, experiments, help in this order; the intent returned is 'default'
\* exactly when no keyword of any category is a substring of the text, and
\* otherwise the category that has such a keyword while no category
\* declared before it has one. The text alone fixes the result.
C21_FirstCategoryInDeclarationOrder ==
    /\ Len(knowledge_base) = Len(DeclarationOrder)
    /\ \A k \in 1..Len(DeclarationOrder) :
          knowledge_base[k].intent = DeclarationOrder[k]
    /\ intent # None =>
          /\ intent[1] = "default" <=>
                \A k \in 1..Len(DeclarationOrder) : ~matches(classified_text, k)
          /\ \A k \in 1..Len(DeclarationOrder) :
                (/\ matches(classified_text, k)
                 /\ \A j \in 1..(k - 1) : ~matches(classified_text, j))
                    => intent[1] = DeclarationOrder[k]

\* "this SAFETY" holds the greeting keyword "hi" and the safety keyword, and
\* has been classified as a greeting.
C21_Witness ==
    /\ chat_pc = "classified"
    /\ message = <<"t", "h", "i", "s", " ", "S", "A", "F", "E", "T", "Y">>
    /\ matches(classified_text, 1)
    /\ matches(classified_text, 4)
    /\ intent = Some("greetings")

(***************************************************************************)
(* Claims on send_chat_message and save_conversation, checked under        *)
(* SpecSend.                                                               *)
(***************************************************************************)
\* The message of the body is empty or made of whitespace only.
blank_message ==
    \A i \in 1..Len(message_of(sending.data)) :
        message_of(sending.data)[i] \in {" ", "\t", "\n"}

\* The rows and log entries the request has added so far.
rows_added == Len(chat_messages) - Len(sending.before)

entries_logged == Len(activity_log) - sending.log_before

\* C22: an authenticated request with an empty or whitespace-only message
\* is answered 400 with no call of the chatbot, no row saved and no entry
\* logged; a message that is not blank is never answered 400; the activity
\* is logged only after the conversation is saved, and a success answer is
\* given only after both.
C22_EmptyRejectedSaveBeforeLog ==
    /\ (sending.pc = "done" /\ logged_in(session) /\ blank_message) =>
          /\ sending.status = 400
          /\ sending.calls = <<>>
          /\ rows_added = 0
          /\ entries_logged = 0
    /\ sending.status = 400 => blank_message
    /\ (\E i \in 1..Len(sending.calls) : sending.calls[i] = "log_activity") =>
          /\ sending.calls = <<"process_message", "save_conversation", "log_activity">>
          /\ rows_added = 2
    /\ entries_logged > 0 => rows_added = 2
    /\ sending.status = 200 =>
          /\ rows_added = 2
          /\ entries_logged = 1
          /\ sending.calls = <<"process_message", "save_conversation", "log_activity">>

\* A message of whitespace only has been rejected after an earlier message
\* of the client was saved and logged.
C22_Witness ==
    /\ sending.pc = "done"
    /\ sending.status = 400
    /\ sending.data = Some(<<" ", "\t", "\n">>)
    /\ Len(sending.before) >= 2
    /\ Len(activity_log) = 1

\* save_conversation has committed in the request being served.
saved ==
    \/ sending.pc = "log"
    \/ \E i \in 1..Len(sending.calls) : sending.calls[i] = "log_activity"

\* C23: save_conversation leaves the stored messages as they were and adds,
\* in one commit, two rows of the given user after them: the user message
\* with is_user_message true and an empty response, then the bot response
\* with is_user_message false and an empty message.
C23_SaveAddsUserThenBotMessage ==
    sending.pc # "idle" =>
        /\ rows_added \in {0, 2}
        /\ SubSeq(chat_messages, 1, Len(sending.before)) = sending.before
        /\ rows_added = 2 <=> saved
        /\ saved =>
              /\ chat_messages[Len(sending.before) + 1] =
                    [user_id |-> session.user_id,
                     message |-> sending.user_message,
                     response |-> <<>>, is_user_message |-> TRUE]
              /\ chat_messages[Len(sending.before) + 2] =
                    [user_id |-> session.user_id, message |-> <<>>,
                     response |-> sending.bot_response,
                     is_user_message |-> FALSE]

\* The conversation "hi" / "ok" has been saved after a message of another
\* user.
C23_Witness ==
    /\ saved
    /\ sending.before = <<EarlierMessage>>
    /\ sending.user_message = <<"h", "i">>
    /\ sending.bot_response = <<"o", "k">>
    /\ Len(chat_messages) = 3

\* The load failed: torch or transformers is missing, or the try block raised.
load_has_failed == ~TORCH_AVAILABLE \/ construction.raised # ""

\* The model and the tokenizer are both set.
both_set == chemllm.model # None /\ chemllm.tokenizer # None

\* C24: at every moment from __init__ on, is_loaded is true only if the model
\* and the tokenizer are both set; once the construction has returned after
\* a failed load (torch or transformers missing, or an exception raised by
\* the load of the tokenizer or of the model), is_loaded is false and the
\* model and the tokenizer are both None; and every call of is_available()
\* returned True exactly when enabled and is_loaded hold and the model and
\* the tokenizer are both set.
C24_LoadedOnlyWithModelAndTokenizer ==
    /\ chemllm.is_loaded => both_set
    /\ (construction.pc = "constructed" /\ load_has_failed) =>
           /\ ~chemllm.is_loaded
           /\ chemllm.model = None
           /\ chemllm.tokenizer = None
    /\ \A i \in 1..Len(answers) :
           answers[i].call = "is_available" =>
               (answers[i].returned = "True" <=>
                    (chemllm.enabled /\ chemllm.is_loaded /\ both_set))

\* The model failed to load after the tokenizer had been loaded, and
\* is_available() has been called since and has returned False.
C24_Witness ==
    /\ construction = [pc |-> "constructed", raised |-> "model"]
    /\ \E i \in 1..Len(answers) :
           answers[i].call = "is_available" /\ answers[i].returned = "False"

====
